---- MODULE Spec2Model ----
(***************************************************************************)
(* The scroll-driven milestone timeline of src/src/timeline.js as a state  *)
(* machine: the asynchronous initialisation (init / loadData), the         *)
(* debounced resize listener, the scroll and IntersectionObserver          *)
(* callbacks and the hover handlers.  Every synchronous run of JavaScript  *)
(* (one task or one continuation after an await) is one action.            *)
(*                                                                         *)
(* Conventions.  Opacities are kept in tenths (1 -> 10, 0.6 -> 6,          *)
(* 0.3 -> 3).  Milestone indices are 0-based as in the source; element i   *)
(* of the d3 selection is milestones[i + 1].  Vertical distances to the    *)
(* viewport centre are kept doubled so that windowHeight / 2 stays an      *)
(* integer.  d3 transitions are modelled by the value they end on: a later *)
(* transition on an element interrupts the earlier one.                    *)
(*                                                                         *)
(* The pure layout functions of drawTimeline (yScale, the placing and      *)
(* colouring of a milestone, wrapText) are applied under SpecLayout, whose *)
(* initial states draw the arguments of one call.                          *)
(***************************************************************************)
EXTENDS Integers, Sequences, FiniteSets, TLC

\* ---------------------------------------------------------------- bounds
\* init() invocations of one run (the one at startup and the resize ones)
MaxInits == 2
\* granularity of the clock, in ms
TickMs == 125
\* largest scroll offset sampled, and the viewport height, in page pixels
MaxScroll == 2
WindowHeight == 2
\* frames whose entries one observer holds before its callback runs
MaxFrames == 1

\* ------------------------------------------------------ program constants
DebounceMs == 250
OpacityActive == 10
OpacityPast == 6
OpacityFuture == 3
Infinity == 1000000

\* ------------------------------------------------------------ input data
\* A parsed CSV row.  date orders the rows; hasTitle is FALSE when the file
\* has no title column (d.title is undefined) and hasDescription is FALSE
\* when it has no description column (d.description is undefined);
\* category is d.category || 'General'; boxTop and boxHeight are the page
\* geometry the rendering surface reports for
\* the row's group once it is drawn (its position follows from the date,
\* its height from the wrapped text).
Row(d, t, top, h) ==
    [date |-> d, hasTitle |-> t, hasDescription |-> TRUE,
     category |-> "Founding", boxTop |-> top, boxHeight |-> h]

CsvEmpty == << >>
CsvThree == << Row(3, TRUE, 3, 1), Row(1, TRUE, 0, 4), Row(2, TRUE, 2, 1) >>
CsvNoTitle == << Row(1, FALSE, 0, 2) >>
CsvNoDescription == << [Row(1, TRUE, 0, 2) EXCEPT !.hasDescription = FALSE] >>
CsvDefineGetter == << [Row(1, TRUE, 0, 2) EXCEPT !.category = "__defineGetter__"] >>
CsvOne == << Row(1, TRUE, 1, 2) >>

\* What a fetch of ../data/milestones.csv can end with: the request is
\* rejected, or the file parses into rows.  Every init() fetches the file
\* again, so two fetches may deliver different rows.
FetchResults == { [ok |-> FALSE, rows |-> << >>] }
                \cup { [ok |-> TRUE, rows |-> r] : r \in {CsvEmpty, CsvThree, CsvNoTitle, CsvNoDescription,
                                                       CsvDefineGetter, CsvOne} }

\* -------------------------------------------------------- pure helpers
Abs(a) == IF a < 0 THEN -a ELSE a

\* data.sort((a, b) => a.date - b.date): a stable sort by date
RECURSIVE InsertByDate(_, _)
InsertByDate(sorted, r) ==
    IF sorted = << >> THEN << r >>
    ELSE IF Head(sorted).date <= r.date
         THEN << Head(sorted) >> \o InsertByDate(Tail(sorted), r)
         ELSE << r >> \o sorted

RECURSIVE SortByDate(_)
SortByDate(rows) ==
    IF rows = << >> THEN << >>
    ELSE InsertByDate(SortByDate(SubSeq(rows, 1, Len(rows) - 1)), rows[Len(rows)])

\* loadData with the empty-dataset check left out
LoadDataNoEmptyCheck(result) ==
    IF ~result.ok THEN [ok |-> FALSE, data |-> << >>]
    ELSE [ok |-> TRUE, data |-> SortByDate(result.rows)]

\* loadData with a catch that swallows the failure and returns no rows
LoadDataSwallow(result) ==
    IF ~result.ok \/ Len(result.rows) = 0 THEN [ok |-> TRUE, data |-> << >>]
    ELSE [ok |-> TRUE, data |-> SortByDate(result.rows)]

\* loadData: the rows sorted by date; it throws ("Failed to load data: ...")
\* when the fetch is rejected and when the file holds no rows.
LoadData(result) ==
    IF ~result.ok THEN [ok |-> FALSE, data |-> << >>]
    ELSE LET data == SortByDate(result.rows)
         IN IF Len(data) = 0 THEN [ok |-> FALSE, data |-> << >>]
            ELSE [ok |-> TRUE, data |-> data]

\* The container's descendants, by kind.
\* setupVisualization: remove everything, append the svg and its main group
SetupVisualization(c) == {"svg", "timeline-group"}
\* drawTimeline: the year sections and one group per row are appended
DrawTimelineElements(c, data) ==
    c \cup {"year-section"} \cup (IF Len(data) > 0 THEN {"milestone"} ELSE {})

\* displayError without the removal of the existing content
DisplayErrorNoClear(c) == c \cup {"error-message"}
\* displayError: remove everything, append the error message
DisplayError(c) == {"error-message"}

\* drawTimeline, line 252: the first milestone starts active
InitialOpacity(i) == IF i = 0 THEN OpacityActive ELSE OpacityFuture

\* mouseenter, line 347
HoverOpacity(i, hoveredIndex) == IF i = hoveredIndex THEN OpacityActive ELSE OpacityFuture

\* mouseleave restoring the hover pattern of the element left
LeaveOpacityStale(i, active, left) == HoverOpacity(i, left)
\* mouseleave, lines 354-359: active is currentActiveIndex; left is the
\* index of the element the pointer leaves, which the handler does not read
LeaveOpacity(i, active, left) ==
    IF i = active THEN OpacityActive ELSE IF i < active THEN OpacityPast ELSE OpacityFuture

\* activateMilestone giving past milestones the future opacity
ActivateOpacityFlat(i, index) == IF i = index THEN OpacityActive ELSE OpacityFuture
\* activateMilestone, lines 410-416
ActivateOpacity(i, index) ==
    IF i = index THEN OpacityActive ELSE IF i < index THEN OpacityPast ELSE OpacityFuture

\* The opacities of a selection, in order.
Opacities(ms) == [i \in DOMAIN ms |-> ms[i].opacity]
\* The scroll pattern of an active index over n milestones.
ScrollPattern(n, active) ==
    [i \in 1..n |-> IF i - 1 = active THEN OpacityActive
                    ELSE IF i - 1 < active THEN OpacityPast ELSE OpacityFuture]
\* The hover pattern of a hovered index over n milestones.
HoverPattern(n, h) ==
    [i \in 1..n |-> IF i - 1 = h THEN OpacityActive ELSE OpacityFuture]

\* activateMilestone without the early return
ActivateMilestoneNoGuard(st, index) ==
    [active |-> index,
     ms |-> [i \in DOMAIN st.ms |->
                [st.ms[i] EXCEPT !.opacity = ActivateOpacity(i - 1, index)]]]

\* activateMilestone(index) on st = [active: currentActiveIndex, ms: milestones]
ActivateMilestone(st, index) ==
    IF st.active = index THEN st
    ELSE [active |-> index,
          ms |-> [i \in DOMAIN st.ms |->
                     [st.ms[i] EXCEPT !.opacity = ActivateOpacity(i - 1, index)]]]

\* the calls activateMilestone(calls[1]), activateMilestone(calls[2]), ...
RECURSIVE ActivateAll(_, _)
ActivateAll(st, calls) ==
    IF calls = << >> THEN st
    ELSE ActivateAll(ActivateMilestone(st, Head(calls)), Tail(calls))

\* ---------------------------------------------------------------- state
VARIABLES
    inits,               \* the init() invocations, by order of their start
    nextInit,            \* the number the next init() invocation gets
    timers,              \* the pending setTimeout timers: [id, left (ms)]
    resizeTimeout,       \* let resizeTimeout: the id of the last timer set, 0 before
    sinceResize,         \* ms since the last resize event (saturating), -1 before any
    burst,               \* the current burst of resize events: [multi, layouts]
    container,           \* the kinds of elements under #visualization-container
    last,                \* the init() invocation that settled last; it wrote the container
    milestones,          \* let milestones: the selection drawn last
    currentActiveIndex,  \* let currentActiveIndex
    hovered,             \* index of the milestone under the pointer, -1 if none
    scrollY,             \* window.scrollY
    observed,            \* per milestone, the isIntersecting the observer computed last
    pending,             \* the observers' queued callbacks, oldest first: [obs, calls, frames]
    scrollListeners,     \* number of scroll listeners registered on window
    hasObserver,         \* the browser provides IntersectionObserver
    domPending,          \* init is registered for DOMContentLoaded, which has
                         \* not been dispatched yet
    lastOp,              \* the handler that ran last ("scroll", "observer",
                         \* "mouseenter", "mouseleave", "other") and the
                         \* activateMilestone calls it made
    call                 \* a call of one of the layout functions (yScale, the
                         \* per-milestone part of drawTimeline, wrapText): its
                         \* arguments and, once applied, its result

vars == << inits, nextInit, timers, resizeTimeout, sinceResize, burst,
           container, last, milestones, currentActiveIndex, hovered,
           scrollY, observed, pending, scrollListeners, hasObserver,
           domPending, lastOp, call >>

InitIds == 1..MaxInits

\* An init() invocation.  pc: "idle" (not started), "fetching" (suspended
\* on await loadData()), "settled" (its continuation has run).  by: what
\* called it while it is suspended, "startup" (line 510-514) or "timer"
\* (the resize timer, line 522).  supersededBy: while it is suspended, the
\* last init() a resize timer started after it, 0 if none.
IdleInit == [pc |-> "idle", by |-> "none", supersededBy |-> 0]
SettledInit == [pc |-> "settled", by |-> "none", supersededBy |-> 0]

\* What is kept of the init() invocation that settled last.  id: its
\* number, 0 before any settled.  fetched: how its fetch ended ("ok" or
\* "rejected").  by: what called it.  nrows: the rows its fetch
\* delivered, -1 if none did.
\* ran: the layout stages it entered.  threw: it ran displayError in its
\* catch block.  supersededBy: as above, at the time it settled.
NoLast == [id |-> 0, by |-> "none", fetched |-> "none", nrows |-> -1, ran |-> {},
           threw |-> FALSE, supersededBy |-> 0]

\* init() up to its await: the invocation is suspended on its fetch
StartInit(by) ==
    [i \in InitIds |->
        IF i = nextInit THEN [pc |-> "fetching", by |-> by, supersededBy |-> 0]
        ELSE IF inits[i].pc = "fetching" /\ by = "timer"
             THEN [inits[i] EXCEPT !.supersededBy = nextInit]
             ELSE inits[i]]

\* from: currentActiveIndex before the handler ran (-1 for handlers that have
\* nothing to do with it)
Op(name, from, calls) == [name |-> name, from |-> from, calls |-> calls]
OtherOp == Op("other", -1, << >>)

\* No layout function is being looked at.
NoCall == [fn |-> "none"]

\* After the script is evaluated (lines 510-524): the resize listener is
\* registered, and either the document was still loading and init is
\* registered for DOMContentLoaded, or init() has been called and is
\* suspended on its fetch.
PageInit ==
    /\ domPending \in BOOLEAN
    /\ inits = [i \in InitIds |->
                   IF i = 1 /\ ~domPending
                   THEN [pc |-> "fetching", by |-> "startup", supersededBy |-> 0]
                   ELSE IdleInit]
    /\ nextInit = IF domPending THEN 1 ELSE 2
    /\ timers = {}
    /\ resizeTimeout = 0
    /\ sinceResize = -1
    /\ burst = [multi |-> FALSE, layouts |-> 0]
    /\ container = {}
    /\ last = NoLast
    /\ milestones = << >>
    /\ currentActiveIndex = 0
    /\ hovered = -1
    /\ scrollY = 0
    /\ observed = << >>
    /\ pending = << >>
    /\ scrollListeners = 0
    /\ hasObserver \in BOOLEAN
    /\ lastOp = OtherOp

Init == PageInit /\ call = NoCall

\* The milestone groups are in the document.
Attached == "milestone" \in container

\* ------------------------------------------------------- initialisation
\* drawTimeline, lines 240-252: one group per row, the first one active;
\* data-index is not set yet
DrawnMilestones(data) ==
    [k \in DOMAIN data |->
        [opacity |-> InitialOpacity(k - 1), dataIndex |-> -1,
         boxTop |-> data[k].boxTop, boxHeight |-> data[k].boxHeight]]

\* setupScrollytelling, lines 388-391: data-index = i on every group
WithDataIndex(ms) == [k \in DOMAIN ms |-> [ms[k] EXCEPT !.dataIndex = k - 1]]

\* ------------------------------------------- configuration and colors
categoryColors ==
    [c \in {"Founding", "Financial Milestones", "Collaborations and Workshops",
            "Team Expansion", "Knowledge Expansion", "Project Developments",
            "Publications and Media"} |->
        CASE c = "Founding" -> "#1D315F"
          [] c = "Financial Milestones" -> "#B5704B"
          [] c = "Collaborations and Workshops" -> "#CEC1B4"
          [] c = "Team Expansion" -> "#6DB357"
          [] c = "Knowledge Expansion" -> "#D5E398"
          [] c = "Project Developments" -> "#D3E5EF"
          [] c = "Publications and Media" -> "#EAB942"]

colors == [timeline |-> "#000000", text |-> "#000000"]

\* the properties every object literal inherits from Object.prototype
ObjectPrototype ==
    [k \in {"constructor", "hasOwnProperty", "isPrototypeOf",
            "propertyIsEnumerable", "toLocaleString", "toString", "valueOf",
            "__defineGetter__", "__defineSetter__", "__lookupGetter__",
            "__lookupSetter__", "__proto__"} |->
        CASE k = "constructor" -> "function Object"
          [] k = "hasOwnProperty" -> "function hasOwnProperty"
          [] k = "isPrototypeOf" -> "function isPrototypeOf"
          [] k = "propertyIsEnumerable" -> "function propertyIsEnumerable"
          [] k = "toLocaleString" -> "function toLocaleString"
          [] k = "toString" -> "function toString"
          [] k = "valueOf" -> "function valueOf"
          [] k = "__defineGetter__" -> "function __defineGetter__"
          [] k = "__defineSetter__" -> "function __defineSetter__"
          [] k = "__lookupGetter__" -> "function __lookupGetter__"
          [] k = "__lookupSetter__" -> "function __lookupSetter__"
          [] k = "__proto__" -> "[object Object]"]

\* obj[key]: the object's own property, else the one it inherits (a
\* function, or the prototype itself: truthy, and no color), else undefined
Property(obj, key) ==
    IF key \in DOMAIN obj THEN obj[key]
    ELSE IF key \in DOMAIN ObjectPrototype THEN ObjectPrototype[key]
         ELSE "undefined"

\* a || b
OrElse(a, b) == IF a \in {"undefined", ""} THEN b ELSE a

\* the category loadData gives a row: d.category || 'General'
RowCategory(raw) == OrElse(raw, "General")

\* config.categoryColors[d.category] || config.colors.milestone
MilestoneColor(category) ==
    OrElse(Property(categoryColors, category), Property(colors, "milestone"))

\* .attr('fill', color), lines 274 and 284: d3 calls a function value with
\* (d, i, nodes) to get the attribute's value, and __defineGetter__ and
\* __defineSetter__ throw a TypeError when their second argument, here the
\* index i, is no function
AttrThrows(value) ==
    value \in {"function __defineGetter__", "function __defineSetter__"}

\* drawTimeline throws when a row's color is a function that throws when d3
\* calls it (lines 274, 284), and in wrapText (text.split on undefined) when
\* a row has no title (line 303) or no description (line 333)
DrawThrows(data) ==
    \E k \in DOMAIN data :
        \/ AttrThrows(MilestoneColor(data[k].category))
        \/ ~data[k].hasTitle
        \/ ~data[k].hasDescription

\* The fetch of invocation i settles with result: loadData resumes (sort,
\* empty check), then init resumes and runs setupVisualization,
\* drawTimeline and setupScrollytelling, or displayError in its catch.
InitResume(i, result) ==
    /\ inits[i].pc = "fetching"
    /\ LET loaded == LoadData(result)
           drawThrows == loaded.ok /\ DrawThrows(loaded.data)
           wireThrows == loaded.ok /\ ~drawThrows /\ ~hasObserver
           threw == ~loaded.ok \/ drawThrows \/ wireThrows
           stages == IF ~loaded.ok THEN {}
                     ELSE IF drawThrows THEN {"setup", "draw"}
                     ELSE {"setup", "draw", "wire"}
           drawn == DrawnMilestones(loaded.data)
           c1 == IF loaded.ok THEN SetupVisualization(container) ELSE container
           c2 == IF loaded.ok THEN DrawTimelineElements(c1, loaded.data) ELSE c1
       IN /\ last' = [id |-> i,
                       by |-> inits[i].by,
                       fetched |-> IF result.ok THEN "ok" ELSE "rejected",
                       nrows |-> IF result.ok THEN Len(result.rows) ELSE -1,
                       ran |-> stages,
                       threw |-> threw,
                       supersededBy |-> inits[i].supersededBy]
          /\ milestones' = IF ~loaded.ok THEN milestones
                           ELSE IF threw THEN drawn ELSE WithDataIndex(drawn)
          /\ container' = IF threw THEN DisplayError(c2) ELSE c2
          /\ observed' = IF threw THEN observed ELSE [k \in DOMAIN drawn |-> FALSE]
          /\ scrollListeners' = IF threw THEN scrollListeners ELSE scrollListeners + 1
    /\ inits' = [inits EXCEPT ![i] = SettledInit]
    /\ hovered' = -1
    /\ lastOp' = OtherOp
    /\ UNCHANGED << nextInit, timers, resizeTimeout, sinceResize, burst,
                    currentActiveIndex, scrollY, pending, hasObserver, domPending,
                    call >>

\* DOMContentLoaded is dispatched: init() is called and runs up to its
\* await.
DomContentLoaded ==
    /\ domPending
    /\ domPending' = FALSE
    /\ inits' = StartInit("startup")
    /\ nextInit' = nextInit + 1
    /\ lastOp' = OtherOp
    /\ UNCHANGED << timers, resizeTimeout, sinceResize, burst, container, last,
                    milestones, currentActiveIndex, hovered, scrollY, observed, pending,
                    scrollListeners, hasObserver, call >>

\* the init() invocations that can still start, one being kept for
\* DOMContentLoaded while it is awaited
InitsLeft == MaxInits + 1 - nextInit - (IF domPending THEN 1 ELSE 0)

\* ------------------------------------------------------ resize debounce
\* clearTimeout left out of the resize listener
ClearTimeoutNoop(ts, id) == ts
\* clearTimeout(id): the timer with that id, if pending, is dropped
ClearTimeout(ts, id) == { t \in ts : t.id # id }

\* setTimeout returns an id no pending timer has
FreshTimerId(ts) == CHOOSE n \in 1..(Cardinality(ts) + 1) : \A t \in ts : t.id # n

\* A resize event: the listener of lines 519-524 clears the pending timer,
\* also one that is due and whose callback has not run yet, and sets a new
\* one of 250 ms.  Resize events stop once MaxInits init() invocations
\* have started, so that every timer set can fire.
Resize ==
    /\ InitsLeft > 0
    /\ LET kept == ClearTimeout(timers, resizeTimeout)
           id == FreshTimerId(kept)
       IN /\ timers' = kept \cup { [id |-> id, left |-> DebounceMs] }
          /\ resizeTimeout' = id
    /\ burst' = IF sinceResize >= 0 /\ sinceResize < DebounceMs
                THEN [burst EXCEPT !.multi = TRUE]
                ELSE [multi |-> FALSE, layouts |-> 0]
    /\ sinceResize' = 0
    /\ lastOp' = OtherOp
    /\ UNCHANGED << inits, nextInit, container, last, milestones, currentActiveIndex,
                    hovered, scrollY, observed, pending, scrollListeners, hasObserver, domPending, call >>

\* A due timer's callback: init() is called and runs up to its await.
TimerFire(t) ==
    /\ t \in timers
    /\ t.left = 0
    /\ InitsLeft > 0
    /\ timers' = timers \ {t}
    /\ inits' = StartInit("timer")
    /\ nextInit' = nextInit + 1
    /\ burst' = [burst EXCEPT !.layouts = @ + 1]
    /\ lastOp' = OtherOp
    /\ UNCHANGED << resizeTimeout, sinceResize, container, last, milestones,
                    currentActiveIndex, hovered, scrollY, observed, pending, scrollListeners,
                    hasObserver, domPending, call >>

\* Time passes: TickMs, or less when a timer falls due sooner.  A timer
\* that is due stays pending until its callback runs or it is cleared.
Tick ==
    /\ LET running == { t \in timers : t.left > 0 }
           due == IF running = {} THEN TickMs
                  ELSE (CHOOSE t \in running : \A u \in running : t.left <= u.left).left
           d == IF due < TickMs THEN due ELSE TickMs
       IN /\ running # {} \/ (sinceResize >= 0 /\ sinceResize < DebounceMs)
          /\ timers' = { IF t.left > 0 THEN [t EXCEPT !.left = @ - d] ELSE t : t \in timers }
          /\ sinceResize' = IF sinceResize < 0 THEN sinceResize
                            ELSE IF sinceResize + d < DebounceMs THEN sinceResize + d
                            ELSE DebounceMs
    /\ lastOp' = OtherOp
    /\ UNCHANGED << inits, nextInit, resizeTimeout, burst, container, last, milestones,
                    currentActiveIndex, hovered, scrollY, observed, pending, scrollListeners,
                    hasObserver, domPending, call >>

\* ---------------------------------------------------- scroll and observer
\* milestoneY = scrollY + bbox.top.  The box of an element that is not in
\* the document is all zeros.
MilestoneY(ms, k, y, attached) == IF attached THEN ms[k].boxTop ELSE y

\* distance = |milestoneY - centerY| with centerY = scrollY + windowHeight / 2,
\* doubled
Distance2(ms, k, y, attached) ==
    Abs(2 * MilestoneY(ms, k, y, attached) - (2 * y + WindowHeight))

\* the loop of updateTimelineOnScroll, lines 435-444, from element k on
RECURSIVE ClosestFrom(_, _, _, _, _, _)
ClosestFrom(ms, y, attached, k, closestIndex, minDistance) ==
    IF k > Len(ms) THEN closestIndex
    ELSE IF Distance2(ms, k, y, attached) < minDistance
         THEN ClosestFrom(ms, y, attached, k + 1, k - 1, Distance2(ms, k, y, attached))
         ELSE ClosestFrom(ms, y, attached, k + 1, closestIndex, minDistance)

\* updateTimelineOnScroll, lines 427-444: closestIndex
ClosestIndex(ms, y, attached) == ClosestFrom(ms, y, attached, 1, 0, Infinity)

\* A scroll event with window.scrollY = y afterwards (y may be the offset
\* of before): every registered scroll listener runs
\* updateTimelineOnScroll, which ends in activateMilestone(closestIndex).
ScrollSample(y) ==
    /\ y \in 0..MaxScroll
    /\ scrollY' = y
    /\ LET calls == [j \in 1..scrollListeners |-> ClosestIndex(milestones, y, Attached)]
           st == ActivateAll([active |-> currentActiveIndex, ms |-> milestones], calls)
       IN /\ currentActiveIndex' = st.active
          /\ milestones' = st.ms
          /\ lastOp' = Op("scroll", currentActiveIndex, calls)
    /\ UNCHANGED << inits, nextInit, timers, resizeTimeout, sinceResize, burst,
                    container, last, hovered, observed, pending, scrollListeners, hasObserver, domPending, call >>

\* rootMargin -50% 0px -50% 0px: the root is the horizontal line through the
\* centre of the viewport; a group intersects it when its box spans the line
IsIntersecting(ms, k, y) ==
    /\ 2 * ms[k].boxTop <= 2 * y + WindowHeight
    /\ 2 * y + WindowHeight <= 2 * (ms[k].boxTop + ms[k].boxHeight)

\* the data-index of every changed entry that intersects, in the order the
\* targets were observed, from target k on
RECURSIVE EntryCalls(_, _, _)
EntryCalls(ms, changed, k) ==
    IF k > Len(ms) THEN << >>
    ELSE (IF changed[k] /\ IsIntersecting(ms, k, scrollY) THEN << ms[k].dataIndex >> ELSE << >>)
         \o EntryCalls(ms, changed, k + 1)

\* The observer created last is number scrollListeners: setupScrollytelling
\* creates one observer and registers one scroll listener per run.
\* Entries joins the entries computed now to the queue: to the batch of the
\* same observer when its callback has not run yet, else as a new batch.
Entries(queue, obs, calls) ==
    IF calls = << >> THEN queue
    ELSE IF queue # << >> /\ queue[Len(queue)].obs = obs
         THEN [queue EXCEPT ![Len(queue)].calls = @ \o calls,
                            ![Len(queue)].frames = @ + 1]
         ELSE Append(queue, [obs |-> obs, calls |-> calls, frames |-> 1])

\* A frame: the observer of the current groups computes its entries (the
\* targets whose isIntersecting changed since it computed them last, in
\* the order they were observed) and queues them; its callback runs in a
\* later task.  Only the intersecting entries are kept, the callback
\* ignores the others.
ObserverFrame ==
    /\ Attached
    /\ LET changed == [k \in DOMAIN milestones |->
                          IsIntersecting(milestones, k, scrollY) # observed[k]]
           queue == Entries(pending, scrollListeners, EntryCalls(milestones, changed, 1))
       IN /\ \E k \in DOMAIN milestones : changed[k]
          /\ \A j \in DOMAIN queue : queue[j].frames <= MaxFrames
          /\ pending' = queue
    /\ observed' = [k \in DOMAIN milestones |-> IsIntersecting(milestones, k, scrollY)]
    /\ lastOp' = OtherOp
    /\ UNCHANGED << inits, nextInit, timers, resizeTimeout, sinceResize, burst,
                    container, last, milestones, currentActiveIndex, hovered, scrollY,
                    scrollListeners, hasObserver, domPending, call >>

\* The callback of lines 376-385 runs with the entries of the oldest
\* queued batch and activates every one of them, on the groups drawn last:
\* an observer is never disconnected, so the batch may come from the
\* observer of groups that a re-layout has removed since.
ObserverCallback ==
    /\ pending # << >>
    /\ LET calls == Head(pending).calls
           st == ActivateAll([active |-> currentActiveIndex, ms |-> milestones], calls)
       IN /\ currentActiveIndex' = st.active
          /\ milestones' = st.ms
          /\ lastOp' = Op("observer", currentActiveIndex, calls)
    /\ pending' = Tail(pending)
    /\ UNCHANGED << inits, nextInit, timers, resizeTimeout, sinceResize, burst,
                    container, last, hovered, scrollY, observed, scrollListeners,
                    hasObserver, domPending, call >>

\* ------------------------------------------------------------------ hover
\* mouseenter on group e, lines 338-349
MouseEnter(e) ==
    /\ Attached
    /\ hovered = -1
    /\ e \in 0..(Len(milestones) - 1)
    /\ LET hoveredIndex == milestones[e + 1].dataIndex
       IN milestones' = [k \in DOMAIN milestones |->
                            [milestones[k] EXCEPT !.opacity = HoverOpacity(k - 1, hoveredIndex)]]
    /\ hovered' = e
    /\ lastOp' = Op("mouseenter", currentActiveIndex, << >>)
    /\ UNCHANGED << inits, nextInit, timers, resizeTimeout, sinceResize, burst,
                    container, last, currentActiveIndex, scrollY, observed, pending,
                    scrollListeners, hasObserver, domPending, call >>

\* mouseleave from the hovered group, lines 350-361
MouseLeave ==
    /\ Attached
    /\ hovered # -1
    /\ milestones' = [k \in DOMAIN milestones |->
                         [milestones[k] EXCEPT
                             !.opacity = LeaveOpacity(k - 1, currentActiveIndex, hovered)]]
    /\ hovered' = -1
    /\ lastOp' = Op("mouseleave", currentActiveIndex, << >>)
    /\ UNCHANGED << inits, nextInit, timers, resizeTimeout, sinceResize, burst,
                    container, last, currentActiveIndex, scrollY, observed, pending,
                    scrollListeners, hasObserver, domPending, call >>

\* ------------------------------------------------------------ behaviours
Next ==
    \/ \E i \in InitIds, result \in FetchResults : InitResume(i, result)
    \/ DomContentLoaded
    \/ Resize
    \/ \E t \in timers : TimerFire(t)
    \/ Tick
    \/ \E y \in 0..MaxScroll : ScrollSample(y)
    \/ ObserverFrame
    \/ ObserverCallback
    \/ \E e \in 0..(Len(milestones) - 1) : MouseEnter(e)
    \/ MouseLeave

Spec == Init /\ [][Next]_vars

\* ------------------------------------------------- layout: the date scale
\* The layout functions of drawTimeline are pure.  A Date is [year, t]:
\* the year getFullYear() gives in the browser's time zone, and the time
\* elapsed since new Date(year, 0, 1), the local midnight that starts that
\* year, in units of half an hour (the time zones differ by multiples of
\* it), so (date - yearStart) / (yearEnd - yearStart) is t over the units
\* of the year.  A row's date is text naming a calendar day [form, year,
\* day], day counted from 0 on January 1: new Date reads the form
\* yyyy-mm-dd as the midnight of Greenwich and the form m/d/yyyy as the
\* local midnight.  A time zone is [offset, dst]: its distance east of
\* Greenwich in winter and what its clocks add in summer, in the same
\* units.  Positions are pixels counted in units of 1 / PosUnit so that
\* every yearProgress is exact.  A JavaScript number is [nan, v]: NaN, or
\* the number v.

YearMargin == 1
DayStep == 146

YearHeight == 1200
Year2021LineHeight == 150
OtherYearLineHeight == YearHeight - 100
GapBetweenYears == 100
years == << 2021, 2022, 2023, 2024, 2025, 2026 >>

IsLeapYear(year) ==
    (year % 4 = 0 /\ year % 100 # 0) \/ year % 400 = 0

\* new Date(year + 1, 0, 1) - new Date(year, 0, 1), in days
DaysIn(year) == IF IsLeapYear(year) THEN 366 ELSE 365

\* half hours in a day
UnitsPerDay == 2 * 24

\* new Date(year + 1, 0, 1) - new Date(year, 0, 1): both ends are local
\* midnights of January 1, at the same distance from Greenwich
YearUnits(year) == DaysIn(year) * UnitsPerDay

PosUnit == 8 * 9 * 61 * 73

\* the day of the week of January 1 of the year, 0 for Sunday
WeekdayOfJanuary1(year) ==
    (1 + 5 * ((year - 1) % 4) + 4 * ((year - 1) % 100)
       + 6 * ((year - 1) % 400)) % 7

\* the last Sunday that is not after the day of the year
LastSunday(year, day) == day - ((WeekdayOfJanuary1(year) + day) % 7)

\* the days of the year whose local midnight is on summer time in a zone
\* with the clock changes of Berlin: from the day after the last Sunday
\* of March (March 31 is 276 days before the next year) to the last
\* Sunday of October (October 31 is 62 days before the next year), the
\* clocks changing after midnight on both Sundays
SummerDays(year) ==
    (LastSunday(year, DaysIn(year) - 276) + 1)..LastSunday(year, DaysIn(year) - 62)

\* the time zones a browser may be in: Greenwich, Kolkata (+5:30),
\* Bogota (-5:00) and Berlin (+1:00, +2:00 in summer)
TimeZones ==
    { [offset |-> 0, dst |-> 0], [offset |-> 11, dst |-> 0],
      [offset |-> 0 - 10, dst |-> 0], [offset |-> 2, dst |-> 2] }

\* the Date t units after the local start of year, its year carried over
\* when the instant lies in a neighbouring year
LocalDate(year, t) ==
    IF t < 0
    THEN [year |-> year - 1, t |-> t + YearUnits(year - 1)]
    ELSE IF t >= YearUnits(year)
         THEN [year |-> year + 1, t |-> t - YearUnits(year)]
         ELSE [year |-> year, t |-> t]

\* new Date(d.date) in the zone
ParseDate(text, zone) ==
    IF text.form = "iso"
    THEN LocalDate(text.year, text.day * UnitsPerDay + zone.offset)
    ELSE LocalDate(text.year,
                   text.day * UnitsPerDay
                     - (IF text.day \in SummerDays(text.year)
                        THEN zone.dst ELSE 0))

NaN == [nan |-> TRUE, v |-> 0]
Num(v) == [nan |-> FALSE, v |-> v]

\* yearPositions with every start computed without the gap
RECURSIVE YearPositionsNoGap(_)
YearPositionsNoGap(n) ==
    IF n = 1 THEN << 0 >>
    ELSE IF n = 2
         THEN Append(YearPositionsNoGap(1), Year2021LineHeight)
         ELSE LET prev == YearPositionsNoGap(n - 1)
              IN  Append(prev, prev[n - 1] + OtherYearLineHeight)

\* the array yearPositions once it holds n entries; entry i of the source
\* is element i + 1
RECURSIVE YearPositionsUpTo(_)
YearPositionsUpTo(n) ==
    IF n = 1 THEN << 0 >>
    ELSE IF n = 2
         THEN Append(YearPositionsUpTo(1), Year2021LineHeight + GapBetweenYears)
         ELSE LET prev == YearPositionsUpTo(n - 1)
              IN  Append(prev, prev[n - 1] + OtherYearLineHeight + GapBetweenYears)

yearPositions == YearPositionsUpTo(Len(years))

\* yearProgress * lineHeight
Progress(date, lineHeight) ==
    date.t * ((lineHeight * PosUnit) \div YearUnits(date.year))

\* yScale that leaves out the start of the year's line
YScaleNoYearStart(date) ==
    LET yearIndex == date.year - 2021
    IN  IF yearIndex = 0
        THEN Num(Progress(date, Year2021LineHeight))
        ELSE IF yearIndex + 1 \in DOMAIN yearPositions
             THEN Num(Progress(date, OtherYearLineHeight))
             ELSE NaN

\* yScale: yearPositions[yearIndex] is undefined for a year outside the
\* array, and undefined + number is NaN
YScale(date) ==
    LET yearIndex == date.year - 2021
    IN  IF yearIndex = 0
        THEN Num(Progress(date, Year2021LineHeight))
        ELSE IF yearIndex + 1 \in DOMAIN yearPositions
             THEN Num(yearPositions[yearIndex + 1] * PosUnit
                        + Progress(date, OtherYearLineHeight))
             ELSE NaN

\* ----------------------------------------- layout: one milestone's group
\* the transform without the centring of 2021
MilestoneYPosNoCenter(date) == YScale(date)

\* the y of the group's transform
MilestoneYPos(date) ==
    IF date.year = 2021
    THEN Num((Year2021LineHeight * PosUnit) \div 2)
    ELSE YScale(date)

\* ------------------------------------------------------ layout: wrapText
\* A word is its measured width (a positive number of width units); the
\* text of a tspan is the sequence of the words joined in it, and
\* getComputedTextLength of the joined text is the sum of the words' widths
\* plus one space between neighbours.  Pixel offsets of the title block are
\* kept in tenths of a pixel (lineSpacing = 18 * 1.2 px = 216).

MaxWords == 3
MaxWordWidth == 4
MaxLineWidth == 4
SpaceWidth == 1

TitleFontSize == 18
TitleLineHeight == 12
GapBetweenTitleAndDesc == 160

RECURSIVE Sum(_)
Sum(ws) == IF ws = << >> THEN 0 ELSE ws[1] + Sum(Tail(ws))

\* tspan.text(line.join(' ')) followed by getComputedTextLength()
Measure(line) ==
    IF line = << >> THEN 0 ELSE Sum(line) + SpaceWidth * (Len(line) - 1)

\* tspan.text(...) on the tspan appended last
SetLastText(tspans, line) == [tspans EXCEPT ![Len(tspans)] = line]

\* the body of words.forEach without line.pop(): the overflowing text stays
WrapStepNoPop(st, word, maxWidth) ==
    LET pushed == Append(st.line, word)
    IN  IF Measure(pushed) > maxWidth
        THEN [tspans |-> Append(SetLastText(st.tspans, pushed), << word >>),
              line |-> << word >>,
              lineNumber |-> st.lineNumber + 1]
        ELSE [tspans |-> SetLastText(st.tspans, pushed),
              line |-> pushed,
              lineNumber |-> st.lineNumber]

\* the body of words.forEach: the tspan appended k-th has dy = k * 1.2em,
\* so tspans[k + 1] is the text of line k
WrapStep(st, word, maxWidth) ==
    LET pushed == Append(st.line, word)
    IN  IF Measure(pushed) > maxWidth
        THEN [tspans |-> Append(SetLastText(st.tspans, st.line), << word >>),
              line |-> << word >>,
              lineNumber |-> st.lineNumber + 1]
        ELSE [tspans |-> SetLastText(st.tspans, pushed),
              line |-> pushed,
              lineNumber |-> st.lineNumber]

RECURSIVE WrapLoop(_, _, _)
WrapLoop(st, words, maxWidth) ==
    IF words = << >> THEN st
    ELSE WrapLoop(WrapStep(st, Head(words), maxWidth), Tail(words), maxWidth)

\* wrapText returning the number of line breaks
WrapTextCountsBreaks(words, maxWidth) ==
    LET end == WrapLoop([tspans |-> << << >> >>, line |-> << >>, lineNumber |-> 0],
                        words, maxWidth)
    IN  [lines |-> end.tspans, count |-> end.lineNumber]

\* wrapText: the tspans left in the text element and the returned count
WrapText(words, maxWidth) ==
    LET end == WrapLoop([tspans |-> << << >> >>, line |-> << >>, lineNumber |-> 0],
                        words, maxWidth)
    IN  [lines |-> end.tspans, count |-> end.lineNumber + 1]

\* lineSpacing = titleFontSize * titleLineHeight
LineSpacing == TitleFontSize * TitleLineHeight

\* the y attribute of the description below a title of lineCount lines
DescriptionY(lineCount) ==
    (lineCount - 1) * LineSpacing + LineSpacing \div 2 + GapBetweenTitleAndDesc

\* ---------------------------------------------- calls of layout functions
DateTexts ==
    { [form |-> f, year |-> y, day |-> d] :
        f \in {"iso", "local"},
        y \in (years[1] - YearMargin)..(years[Len(years)] + YearMargin),
        d \in 0..365 }

SampleDates ==
    { text \in DateTexts :
        /\ text.day < DaysIn(text.year)
        /\ \/ text.day % DayStep = 0
           \/ text.day = DaysIn(text.year) - 1
           \/ \E change \in { LastSunday(text.year, DaysIn(text.year) - 276),
                               LastSunday(text.year, DaysIn(text.year) - 62) } :
                 text.day \in { change, change + 1 } }

RawCategories ==
    DOMAIN categoryColors
      \cup {"", "Outreach", "constructor", "__proto__", "__defineGetter__"}

\* the Dates of two rows of one page
ScaleCalls ==
    { [fn |-> "yScale", applied |-> FALSE, d1 |-> ParseDate(a, z),
       d2 |-> ParseDate(b, z), y1 |-> NaN, y2 |-> NaN] :
         a \in SampleDates, b \in SampleDates, z \in TimeZones }

DrawCalls ==
    { [fn |-> "drawMilestone", applied |-> FALSE, zone |-> z, text |-> a,
       raw |-> r, date |-> LocalDate(0, 0), category |-> "", yPos |-> NaN,
       color |-> "", threw |-> FALSE] :
         a \in SampleDates, r \in RawCategories, z \in TimeZones }

WordSeqs ==
    UNION { [1..n -> 1..MaxWordWidth] : n \in 1..MaxWords }

WrapCalls ==
    { [fn |-> "wrapText", applied |-> FALSE, words |-> ws, maxWidth |-> mw,
       lines |-> << >>, count |-> 0, descriptionY |-> 0] :
         ws \in WordSeqs, mw \in 1..MaxLineWidth }

InitLayout ==
    /\ PageInit
    /\ ~domPending
    /\ hasObserver
    /\ call \in ScaleCalls \cup DrawCalls \cup WrapCalls

\* yScale is applied to the two dates
ApplyYScale ==
    /\ call.fn = "yScale"
    /\ ~call.applied
    /\ call' = [call EXCEPT !.applied = TRUE,
                            !.y1 = YScale(call.d1),
                            !.y2 = YScale(call.d2)]
    /\ UNCHANGED << inits, nextInit, timers, resizeTimeout, sinceResize, burst,
                    container, last, milestones, currentActiveIndex, hovered,
                    scrollY, observed, pending, scrollListeners, hasObserver, domPending, lastOp >>

\* loadData maps the row, drawTimeline places and colours its group
ApplyDrawMilestone ==
    /\ call.fn = "drawMilestone"
    /\ ~call.applied
    /\ LET date == ParseDate(call.text, call.zone)
           category == RowCategory(call.raw)
       IN  call' = [call EXCEPT !.applied = TRUE,
                                !.date = date,
                                !.category = category,
                                !.yPos = MilestoneYPos(date),
                                !.color = MilestoneColor(category),
                                !.threw = AttrThrows(MilestoneColor(category))]
    /\ UNCHANGED << inits, nextInit, timers, resizeTimeout, sinceResize, burst,
                    container, last, milestones, currentActiveIndex, hovered,
                    scrollY, observed, pending, scrollListeners, hasObserver, domPending, lastOp >>

\* a title is wrapped and its description placed below it
ApplyWrapText ==
    /\ call.fn = "wrapText"
    /\ ~call.applied
    /\ LET wrapped == WrapText(call.words, call.maxWidth)
       IN  call' = [call EXCEPT !.applied = TRUE,
                                !.lines = wrapped.lines,
                                !.count = wrapped.count,
                                !.descriptionY = DescriptionY(wrapped.count)]
    /\ UNCHANGED << inits, nextInit, timers, resizeTimeout, sinceResize, burst,
                    container, last, milestones, currentActiveIndex, hovered,
                    scrollY, observed, pending, scrollListeners, hasObserver, domPending, lastOp >>

NextLayout ==
    \/ ApplyYScale
    \/ ApplyDrawMilestone
    \/ ApplyWrapText

SpecLayout == InitLayout /\ [][NextLayout]_vars

\* ---------------------------------------------------------------- claims
NumMilestones == Len(milestones)

\* a is an index whose group is at the least distance from the viewport centre
IsNearest(a) ==
    /\ a \in 0..(NumMilestones - 1)
    /\ \A k \in DOMAIN milestones :
          Distance2(milestones, a + 1, scrollY, TRUE) <= Distance2(milestones, k, scrollY, TRUE)

\* C1: after a mouseleave every milestone's opacity is the scroll pattern of
\* currentActiveIndex (1 active, 0.6 below, 0.3 above), whatever scroll
\* samples, observer callbacks and hovers came before, and neither the
\* mouseenter nor the mouseleave handler changes currentActiveIndex.
C1_LeaveRestoresScrollPattern ==
    /\ [](lastOp.name = "mouseleave" =>
             Opacities(milestones) = ScrollPattern(NumMilestones, currentActiveIndex))
    /\ [][lastOp'.name \in {"mouseenter", "mouseleave"} =>
             currentActiveIndex' = currentActiveIndex]_vars

\* C1 witness: the pointer has left a milestone while index 2 of three is
\* active, after the active index moved away from the initial 0
C1_Witness ==
    /\ lastOp.name = "mouseleave"
    /\ NumMilestones = 3
    /\ currentActiveIndex = 2
    /\ Opacities(milestones) = << OpacityPast, OpacityPast, OpacityActive >>

\* C2: while a milestone is hovered, it has full opacity and every other
\* milestone the minimal one, also when scroll samples or observer
\* callbacks that change the active index come during the hover.
C2_HoverOverridesScroll ==
    hovered # -1 => Opacities(milestones) = HoverPattern(NumMilestones, hovered)

\* C3: after every scroll sample or observer callback that the handlers
\* processed on rendered milestones, currentActiveIndex is a milestone at
\* the least distance from the viewport centre.
C3_ActiveIsNearest ==
    (lastOp.name \in {"scroll", "observer"} /\ lastOp.calls # << >> /\ Attached)
        => IsNearest(currentActiveIndex)

\* C4: a handler whose activateMilestone calls change currentActiveIndex
\* leaves it at the index k of the last call, with opacity 1 on milestone
\* k, 0.6 on every index below k and 0.3 on every index above k; 0.6 is
\* lowered but above the minimal 0.3.
C4_ActivationPattern ==
    /\ (lastOp.calls # << >> /\ currentActiveIndex # lastOp.from) =>
          /\ currentActiveIndex = lastOp.calls[Len(lastOp.calls)]
          /\ Opacities(milestones) = ScrollPattern(NumMilestones, currentActiveIndex)
    /\ 0 < OpacityFuture /\ OpacityFuture < OpacityPast /\ OpacityPast < OpacityActive

\* C4 witness: with three milestones a scroll sample moved the active index
\* from 0 to 2; milestones 0 and 1 are past, 2 is active, none is future
C4_Witness ==
    /\ lastOp.name = "scroll"
    /\ lastOp.from = 0
    /\ NumMilestones = 3
    /\ currentActiveIndex = 2
    /\ Opacities(milestones) = << OpacityPast, OpacityPast, OpacityActive >>

\* C5: a handler all of whose activateMilestone calls name the index that
\* is already active changes neither currentActiveIndex nor any
\* milestone's opacity.
C5_ReactivationIsNoOp ==
    [][(lastOp'.calls # << >>
        /\ \A j \in DOMAIN lastOp'.calls : lastOp'.calls[j] = currentActiveIndex)
       => (currentActiveIndex' = currentActiveIndex /\ milestones' = milestones)]_vars

\* C5 witness: the active index was activated again while the opacities
\* were not its scroll pattern (a hover was in progress), and they were kept
C5_Witness ==
    /\ lastOp.calls # << >>
    /\ \A j \in DOMAIN lastOp.calls : lastOp.calls[j] = lastOp.from
    /\ currentActiveIndex = lastOp.from
    /\ hovered # -1
    /\ Opacities(milestones) # ScrollPattern(NumMilestones, currentActiveIndex)

\* C6 (as stated): a timer-started init() never starts less than 250 ms
\* after the last resize event, and a burst of resize events less than
\* 250 ms apart starts exactly one init(), after its last event: none
\* while the burst's timer is pending, one once it has fired, and one has
\* been started by the time a resize event opens the next burst.
C6_ResizeDebounced ==
    /\ [](timers # {} =>
            /\ Cardinality(timers) = 1
            /\ burst.layouts = 0
            /\ \A t \in timers : t.left + sinceResize = DebounceMs)
    /\ []((timers = {} /\ sinceResize >= 0) => burst.layouts = 1)
    /\ [][(nextInit' # nextInit /\ inits'[nextInit].by = "timer")
             => (sinceResize >= DebounceMs /\ burst.layouts = 0)]_vars
    /\ [][(sinceResize = DebounceMs /\ sinceResize' = 0) => burst.layouts = 1]_vars

\* C6 (amended): a timer-started init() never starts less than 250 ms
\* after the last resize event, and a burst of resize events less than
\* 250 ms apart starts at most one init(), after its last event: none
\* while the burst's timer is pending, one once its callback has run.  A
\* resize event handled while the timer is due clears it, and that burst
\* starts none.
C6_ResizeCoalesced ==
    /\ [](timers # {} =>
            /\ Cardinality(timers) = 1
            /\ burst.layouts = 0
            /\ \A t \in timers : t.left + sinceResize = DebounceMs)
    /\ []((timers = {} /\ sinceResize >= 0) => burst.layouts = 1)
    /\ [][(nextInit' # nextInit /\ inits'[nextInit].by = "timer")
             => (sinceResize >= DebounceMs /\ burst.layouts = 0)]_vars
    /\ [][(sinceResize = DebounceMs /\ sinceResize' = 0) => burst.layouts <= 1]_vars

\* C6 witness: a burst of several resize events has started its one init()
C6_Witness ==
    /\ burst.multi
    /\ burst.layouts = 1
    /\ timers = {}
    /\ \E i \in InitIds : inits[i].by = "timer"

\* C7: an init() that was superseded while suspended (a later init() was
\* started by a resize timer) never writes the container after the init() that
\* superseded it has settled.
C7_ResizeLayoutSupersedes ==
    ~(last.supersededBy # 0 /\ inits[last.supersededBy].pc = "settled")

\* C8 as stated: layout stages run only after a successful fetch, and no
\* init() other than the one at startup suspends on a fetch.
C8_FetchOnceAtStartup ==
    /\ last.ran # {} => last.fetched = "ok"
    /\ \A i \in InitIds : inits[i].by # "timer"

\* C8 amended: every init(), the one at startup and each one started by a
\* resize, suspends on its own fetch; its layout stages run only after
\* that fetch delivered rows, and the container changes only in the step
\* in which a suspended init() resumes.
C8_EachInitAwaitsItsFetch ==
    /\ [](last.ran # {} => (last.fetched = "ok" /\ last.nrows > 0))
    /\ [][nextInit' # nextInit =>
             /\ inits'[nextInit].pc = "fetching"
             /\ container' = container
             /\ milestones' = milestones]_vars
    /\ [][container' # container =>
             \E i \in InitIds : inits[i].pc = "fetching" /\ inits'[i].pc = "settled"]_vars

\* C8 witness: an init() started by a resize has laid the timeline out
\* after its own fetch
C8_Witness ==
    /\ last.by = "timer"
    /\ last.fetched = "ok"
    /\ last.ran = {"setup", "draw", "wire"}
    /\ ~last.threw

\* C9: once init() has caught an error, whatever stage raised it, the
\* container holds the error message and nothing else; the error message
\* is never in the container next to rendered elements.
C9_ErrorReplacesVisualization ==
    /\ last.threw => container = {"error-message"}
    /\ "error-message" \in container => container = {"error-message"}

\* C9 witness: drawTimeline threw after an earlier init() had rendered
\* the timeline, and only the error message is left
C9_Witness ==
    /\ last.threw
    /\ last.ran = {"setup", "draw"}
    /\ scrollListeners > 0
    /\ container = {"error-message"}

\* C10: when the file holds no rows, loadData throws: no layout stage is
\* entered and the error message is displayed.
C10_EmptyDatasetFailsFast ==
    (last.fetched = "ok" /\ last.nrows = 0) =>
        (last.ran = {} /\ last.threw /\ container = {"error-message"})

\* C10 witness: a fetch delivered a file without rows
C10_Witness ==
    /\ last.fetched = "ok"
    /\ last.nrows = 0
    /\ container = {"error-message"}

\* C11: while the loaded milestones are rendered, the active index is one
\* of their indices 0..n-1, whatever scroll samples, visibility signals,
\* hover events and resize re-layouts have happened.
C11_ActiveIndexInRange ==
    (Attached /\ NumMilestones > 0) =>
        currentActiveIndex \in 0..(NumMilestones - 1)

\* C20: whenever no hover is in progress, the rendered milestones show the
\* scroll pattern of the current active index, also after a resize
\* re-layout has redrawn them.
C20_NoHoverShowsScrollPattern ==
    (hovered = -1 /\ Attached /\ currentActiveIndex < NumMilestones) =>
        Opacities(milestones) = ScrollPattern(NumMilestones, currentActiveIndex)

\* the years the scale is configured for
InRange(date) == date.year \in years[1]..years[Len(years)]

\* d1 is not later than d2
NotLater(d1, d2) ==
    d1.year < d2.year \/ (d1.year = d2.year /\ d1.t <= d2.t)

\* C12 (as stated): every milestone, also one of 2021, is drawn at the y
\* that yScale gives for its date.
C12_YIsPositionOfDate ==
    (call.fn = "drawMilestone" /\ call.applied) =>
        call.yPos = YScale(call.date)

\* C12 (amended): a milestone of 2022..2026 is drawn at the y that yScale
\* gives for its date; a milestone of 2021 is drawn at the middle of the
\* 2021 line, half of its 150 px, whatever its day.
C12_YIsPositionExceptIn2021 ==
    (call.fn = "drawMilestone" /\ call.applied) =>
        /\ call.date.year # 2021 => call.yPos = YScale(call.date)
        /\ call.date.year = 2021 =>
              (~call.yPos.nan /\ 2 * call.yPos.v = 150 * PosUnit)

\* C12 witness: a milestone of 2021 was placed, away from the y of its date
C12_Witness ==
    /\ call.fn = "drawMilestone"
    /\ call.applied
    /\ call.date.year = 2021
    /\ call.date.t > UnitsPerDay
    /\ call.yPos # YScale(call.date)

\* C13: for a date of a year outside 2021..2026, yScale gives a number
\* (the scale continued beyond its segments), not a rejection.
C13_OutOfRangeIsNumeric ==
    (call.fn = "yScale" /\ call.applied) =>
        /\ ~InRange(call.d1) => ~call.y1.nan
        /\ ~InRange(call.d2) => ~call.y2.nan

\* C17: for two dates d1 <= d2 of the years 2021..2026, in the same year or
\* in different years, yScale(d1) <= yScale(d2).
C17_PositionIsMonotone ==
    (/\ call.fn = "yScale"
     /\ call.applied
     /\ InRange(call.d1)
     /\ InRange(call.d2)
     /\ NotLater(call.d1, call.d2)) =>
        /\ ~call.y1.nan
        /\ ~call.y2.nan
        /\ call.y1.v <= call.y2.v

\* C17 witness: the last day of one year and the first day of the next
C17_Witness ==
    /\ call.fn = "yScale"
    /\ call.applied
    /\ InRange(call.d1)
    /\ call.d1.t >= YearUnits(call.d1.year) - UnitsPerDay
    /\ call.d2.year = call.d1.year + 1
    /\ call.d2.t < UnitsPerDay
    /\ InRange(call.d2)
    /\ call.y1.v < call.y2.v

\* the line length of the claim: 150 for 2021, 1100 for the other years
C18_Length(i) == IF i = 1 THEN 150 ELSE 1100

\* C18: the start offsets are 0 and then the previous start plus the
\* previous length plus the gap of 100; the start of January 1 of a
\* configured year is at the year's start offset, every instant of the
\* year lies within the year's line at the share of the length that has
\* elapsed of the year, and so the last half hour of the year is half an
\* hour's share short of start + length.
C18_SegmentBoundaries ==
    /\ yearPositions[1] = 0
    /\ \A i \in 2..Len(years) :
          yearPositions[i] = yearPositions[i - 1] + C18_Length(i - 1) + 100
    /\ (call.fn = "yScale" /\ call.applied /\ InRange(call.d1)) =>
          LET i == call.d1.year - years[1] + 1
              start == yearPositions[i] * PosUnit
              length == C18_Length(i) * PosUnit
              n == YearUnits(call.d1.year)
          IN  /\ ~call.y1.nan
              /\ call.d1.t = 0 => call.y1.v = start
              /\ start <= call.y1.v
              /\ call.y1.v < start + length
              /\ call.y1.v = start + call.d1.t * (length \div n)
              /\ call.d1.t = n - 1 =>
                    call.y1.v = start + length - length \div n

\* C18 witness: an instant of the last day of a leap year after 2021
C18_Witness ==
    /\ call.fn = "yScale"
    /\ call.applied
    /\ call.d1.year = 2024
    /\ call.d1.t > YearUnits(2024) - UnitsPerDay
    /\ call.y1.v > yearPositions[4] * PosUnit
    /\ call.y1.v < yearPositions[5] * PosUnit - 100 * PosUnit

\* C16: every category resolves to a defined color: one of the seven
\* enumerated categories to its mapped color, "General" (given to a row
\* without category) and any other name to the default color.
C16_ColorLookupIsTotal ==
    (call.fn = "drawMilestone" /\ call.applied) =>
        /\ call.color # "undefined"
        /\ call.category \in DOMAIN categoryColors =>
              call.color = categoryColors[call.category]

\* the greedy wrap of the claim: a word starts a new line only when
\* appending it overflows maxWidth and the current line is not empty
RECURSIVE C14_Greedy(_, _, _, _)
C14_Greedy(done, line, words, maxWidth) ==
    IF words = << >> THEN Append(done, line)
    ELSE LET word == Head(words)
             tentative == Append(line, word)
         IN  IF Measure(tentative) > maxWidth /\ line # << >>
             THEN C14_Greedy(Append(done, line), << word >>, Tail(words), maxWidth)
             ELSE C14_Greedy(done, tentative, Tail(words), maxWidth)

\* C14: wrapText leaves exactly the lines of the greedy wrap and returns
\* their number; no line is empty, also when the first word is wider than
\* maxWidth.
C14_WrapIsGreedy ==
    (call.fn = "wrapText" /\ call.applied) =>
        LET greedy == C14_Greedy(<< >>, << >>, call.words, call.maxWidth)
        IN  /\ call.lines = greedy
            /\ call.count = Len(greedy)
            /\ \A k \in DOMAIN call.lines : call.lines[k] # << >>

\* C15: the description's y is (count - 1) * 21.6 + 10.8 + 16 px for the
\* count of lines the title was wrapped into, which is below the bottom
\* edge of the title's last line.
C15_DescriptionBelowTitle ==
    (call.fn = "wrapText" /\ call.applied) =>
        LET titleLineCount == Len(call.lines)
            lastLineBottom == (titleLineCount - 1) * 216 + 108
        IN  /\ call.descriptionY = (titleLineCount - 1) * 216 + 108 + 160
            /\ call.descriptionY > lastLineBottom

\* C15 witness: a title wrapped into three lines
C15_Witness ==
    /\ call.fn = "wrapText"
    /\ call.applied
    /\ Len(call.lines) = 3
    /\ call.descriptionY > 2 * 216

\* C19: every line left by wrapText measures at most maxWidth, unless it
\* is a single word that alone is wider than maxWidth.
C19_LinesFitExceptOverlongWord ==
    (call.fn = "wrapText" /\ call.applied) =>
        \A k \in DOMAIN call.lines :
            \/ Measure(call.lines[k]) <= call.maxWidth
            \/ Len(call.lines[k]) = 1

\* C19 witness: an overlong word on a line of its own, followed by a line
\* of two words that fits
C19_Witness ==
    /\ call.fn = "wrapText"
    /\ call.applied
    /\ \E k \in DOMAIN call.lines :
          /\ Len(call.lines[k]) = 1
          /\ Measure(call.lines[k]) > call.maxWidth
          /\ k + 1 \in DOMAIN call.lines
          /\ Len(call.lines[k + 1]) = 2
          /\ Measure(call.lines[k + 1]) <= call.maxWidth

\* C21: whatever number of resize re-layouts have run, at most one scroll
\* listener of the visualization is registered on window, and a scroll
\* sample taken while one is registered runs exactly one nearest-milestone
\* evaluation.
C21_OneScrollListener ==
    /\ scrollListeners <= 1
    /\ (lastOp.name = "scroll" /\ scrollListeners > 0) => Len(lastOp.calls) = 1

====
